---- MODULE Spec2Model ----
(***************************************************************************)
(* ThreadMap: HybridChain (threadmap/chain.py) and its analysis queries    *)
(* (threadmap/analysis.py) as a state machine.                             *)
(*                                                                         *)
(* The chain keeps two stores: the dict _entities and the networkx DiGraph *)
(* graph.  Both are insertion ordered (Python dicts), so they are          *)
(* sequences here.  Every public call is one action; the call and what it  *)
(* returned or raised is recorded in the variable last.                    *)
(***************************************************************************)
EXTENDS Integers, Sequences, FiniteSets, TLC

\* ------------------------------------------------------------------------
\* Bounds of the model
\* ------------------------------------------------------------------------

\* most relationships a chain holds
MaxRels == 3

\* largest top_n passed to find_chokepoints
MaxLimit == 4

\* most entry points of an operation plan
MaxEntryPoints == 2

\* most amplification steps of an operation plan
MaxAmplification == 2

\* ------------------------------------------------------------------------
\* Values
\* ------------------------------------------------------------------------

\* Python's None
None == "None"

\* the names get_critical_path gives to its virtual source and sink
SRC == "__src__"

SINK == "__sink__"

\* entity ids are arbitrary strings: two ordinary ones and one that equals a
\* name get_critical_path uses internally
Ids == {"a", "b", SRC}

\* models.py: the seven variants of an entity
Variants == {"Actor", "Action", "Capability", "Infrastructure", "Narrative",
             "Target", "Effect"}

\* models.py: Action carries duration_hours (float | None),
\* success_probability (float, default 0.5, not validated) and tools (list
\* of str, default empty); Capability carries capability_type.  An optional
\* value is a sequence: <<>> for None (or for a field the variant does not
\* have), <<x>> for x.  Probabilities are kept in thousandths so that
\* arithmetic stays in the integers.
Entity(id, type, duration_hours, success_probability) ==
    [id |-> id, type |-> type, duration_hours |-> duration_hours,
     success_probability |-> success_probability,
     tools |-> <<>>, capability_type |-> <<>>]

\* Action(..., tools=tools)
WithTools(entity, tools) == [entity EXCEPT !.tools = tools]

\* Capability(..., capability_type=capability_type)
WithCapabilityType(entity, capability_type) ==
    [entity EXCEPT !.capability_type = <<capability_type>>]

\* the entities handed to add_entity
EntityInputs ==
    { Entity("a", "Narrative", <<>>, <<>>),
      Entity("a", "Action", <<24>>, <<3000>>),
      WithTools(Entity("b", "Action", <<48>>, <<125>>),
                <<"metasploit", "nmap">>),
      WithCapabilityType(Entity(SRC, "Capability", <<>>, <<>>), "exploit") }

\* what a lookup yields when there is no entity (Python's None)
NoEntity == Entity(None, "NoneType", <<>>, <<>>)

\* models.py: Relationship(source_id, target_id, edge_type, resource_id,
\* description)
Relationship(source_id, target_id, edge_type, resource_id, description) ==
    [source_id |-> source_id, target_id |-> target_id,
     edge_type |-> edge_type, resource_id |-> resource_id,
     description |-> description]

\* the relationships handed to add_relationship
RelationshipInputs ==
    { Relationship(s, t, "dependency", None, "") : s \in Ids, t \in Ids }

\* ------------------------------------------------------------------------
\* State
\* ------------------------------------------------------------------------

\* HybridChain(chain_id, name, description): the id the chain is constructed
\* with
chain_id == "test"

VARIABLES
    _entities,   \* HybridChain._entities: dict id -> Entity, as a sequence
    graph,       \* HybridChain.graph, a networkx DiGraph:
                 \*   nodes      the node ids in insertion order
                 \*   succ       node id -> its successors in insertion order
                 \*   node_attr  node id -> [entity_type, data]
                 \*   edge_attr  <<u, v>> -> [edge_type, resource_id,
                 \*              description]
    last         \* the last call: [op, arg, status, value]

vars == <<_entities, graph, last>>

chain == <<_entities, graph>>

\* ------------------------------------------------------------------------
\* Sequence helpers
\* ------------------------------------------------------------------------

Range(s) == { s[i] : i \in DOMAIN s }

\* list.sort(key=key, reverse=True) is a stable sort: elements with equal
\* keys keep their order

\* an insertion that puts x before the elements with an equal key
RECURSIVE InsertSortedUnstable(_, _)
InsertSortedUnstable(sorted, x) ==
    IF sorted = <<>> THEN <<x>>
    ELSE IF Head(sorted).key > x.key
    THEN <<Head(sorted)>> \o InsertSortedUnstable(Tail(sorted), x)
    ELSE <<x>> \o sorted

\* x put into a list sorted by decreasing key, behind the elements whose key
\* is equal
RECURSIVE InsertSorted(_, _)
InsertSorted(sorted, x) ==
    IF sorted = <<>> THEN <<x>>
    ELSE IF Head(sorted).key >= x.key
    THEN <<Head(sorted)>> \o InsertSorted(Tail(sorted), x)
    ELSE <<x>> \o sorted

\* the items [key, item] in sorted order
RECURSIVE SortByKey(_)
SortByKey(s) ==
    IF s = <<>> THEN <<>>
    ELSE CHOOSE r \in { InsertSorted(prefix, s[Len(s)]) :
                          prefix \in { SortByKey(SubSeq(s, 1, Len(s) - 1)) } } :
             TRUE

\* SortReverse([key |-> k(x), item |-> x] for x in s) gives
\* s.sort(key=k, reverse=True)
SortReverse(s) ==
    LET sorted == SortByKey(s)
    IN  [i \in DOMAIN sorted |-> sorted[i].item]

\* s[:n] for n >= 0
Take(s, n) == SubSeq(s, 1, IF n < Len(s) THEN n ELSE Len(s))

\* position of the first element equal to x, 0 when absent
RECURSIVE IndexFrom(_, _, _)
IndexFrom(s, x, i) ==
    IF i > Len(s) THEN 0
    ELSE IF s[i] = x THEN i
    ELSE IndexFrom(s, x, i + 1)

Index(s, x) == IndexFrom(s, x, 1)

\* ------------------------------------------------------------------------
\* The stores
\* ------------------------------------------------------------------------

\* keys of the _entities dict, in dict order
EntityIds == [i \in DOMAIN _entities |-> _entities[i].id]

\* key in d, for a dict d kept as a sequence of items
HasKey(d, key) == \E i \in DOMAIN d : d[i].id = key

\* id in self._entities
HasEntity(id) == HasKey(_entities, id)

\* self._entities.get(id)
get_entity(id) ==
    IF HasEntity(id)
    THEN _entities[CHOOSE i \in DOMAIN _entities : _entities[i].id = id]
    ELSE NoEntity

\* an assignment that keeps the value of a key that exists
DictSetKeepFirst(d, key, value) ==
    IF HasKey(d, key) THEN d ELSE Append(d, value)

\* dict assignment d[key] = value on a dict kept as a sequence of items:
\* an existing key keeps its position, a new key goes last
DictSet(d, key, value) ==
    IF HasKey(d, key)
    THEN [i \in DOMAIN d |-> IF d[i].id = key THEN value ELSE d[i]]
    ELSE Append(d, value)

\* the result of a call
Call(op, arg, status, value) ==
    [op |-> op, arg |-> arg, status |-> status, value |-> value]

\* ------------------------------------------------------------------------
\* networkx on a directed graph G
\* ------------------------------------------------------------------------

\* nx.DiGraph()
DiGraph == [nodes |-> <<>>, succ |-> <<>>, node_attr |-> <<>>,
            edge_attr |-> <<>>]

NodeSet(G) == Range(G.nodes)

HasEdge(G, u, v) ==
    u \in NodeSet(G) /\ \E i \in DOMAIN G.succ[u] : G.succ[u][i] = v

\* the attributes of a node added without attributes
NoNodeAttr == [entity_type |-> None, data |-> NoEntity]

\* the attributes of an edge added without attributes
NoEdgeAttr == [edge_type |-> None, resource_id |-> None, description |-> None]

\* G.add_node(n) without attributes
AddNode(G, n) ==
    IF n \in NodeSet(G) THEN G
    ELSE [G EXCEPT !.nodes = Append(G.nodes, n),
                   !.succ = G.succ @@ (n :> <<>>),
                   !.node_attr = G.node_attr @@ (n :> NoNodeAttr)]

\* an add_node that leaves the attributes of a node that exists as they were
add_node_keeping_attributes(G, n, entity_type, data) ==
    IF n \in NodeSet(G) THEN G
    ELSE [AddNode(G, n) EXCEPT
            !.node_attr[n] = [entity_type |-> entity_type, data |-> data]]

\* an add_node that drops the out-edges of a node that exists
add_node_replacing(G, n, entity_type, data) ==
    [(IF n \in NodeSet(G) THEN [G EXCEPT !.succ[n] = <<>>]
      ELSE AddNode(G, n)) EXCEPT
        !.node_attr[n] = [entity_type |-> entity_type, data |-> data]]

\* G.add_node(n, entity_type=..., data=...): a node that exists keeps its
\* place and its edges and takes the new attributes
add_node(G, n, entity_type, data) ==
    [AddNode(G, n) EXCEPT
        !.node_attr[n] = [entity_type |-> entity_type, data |-> data]]

\* G.add_edge(u, v) without attributes; networkx adds an endpoint that is
\* not yet a node
AddEdge(G, u, v) ==
    IF HasEdge(G, u, v) THEN G
    ELSE LET G2 == AddNode(AddNode(G, u), v)
         IN  [G2 EXCEPT !.succ[u] = Append(G2.succ[u], v),
                        !.edge_attr = G2.edge_attr @@ (<<u, v>> :> NoEdgeAttr)]

\* an add_edge that leaves the attributes of an edge that exists as they were
add_edge_keeping_attributes(G, u, v, edge_type, resource_id, description) ==
    IF HasEdge(G, u, v) THEN G
    ELSE [AddEdge(G, u, v) EXCEPT
            !.edge_attr[<<u, v>>] = [edge_type |-> edge_type,
                                     resource_id |-> resource_id,
                                     description |-> description]]

\* G.add_edge(u, v, edge_type=..., resource_id=..., description=...): an
\* edge that exists keeps its place and takes the new attributes
add_edge(G, u, v, edge_type, resource_id, description) ==
    [AddEdge(G, u, v) EXCEPT
        !.edge_attr[<<u, v>>] = [edge_type |-> edge_type,
                                 resource_id |-> resource_id,
                                 description |-> description]]

\* id in self.graph
HasNode(id) == id \in NodeSet(graph)

\* {"source": u, "target": v, **data} for the out-edges of u in G
EdgesOf(G, u) ==
    [i \in DOMAIN G.succ[u] |->
        LET v == G.succ[u][i]
        IN  [source |-> u, target |-> v,
             edge_type |-> G.edge_attr[<<u, v>>].edge_type,
             resource_id |-> G.edge_attr[<<u, v>>].resource_id,
             description |-> G.edge_attr[<<u, v>>].description]]

\* G.edges(data=True) from the i-th node on
RECURSIVE EdgesFrom(_, _)
EdgesFrom(G, i) ==
    IF i > Len(G.nodes) THEN <<>>
    ELSE EdgesOf(G, G.nodes[i]) \o EdgesFrom(G, i + 1)

\* HybridChain.relationships of a chain whose graph is G
RelationshipsOf(G) == EdgesFrom(G, 1)

\* HybridChain.relationships
relationships == RelationshipsOf(graph)

\* G.in_degree(n)
in_degree(G, n) == Cardinality({u \in NodeSet(G) : HasEdge(G, u, n)})

\* G.out_degree(n)
out_degree(G, n) == Len(G.succ[n])

\* one generation of topological_generations: every child of every node of
\* the generation loses one unit of in-degree, and a child that reaches zero
\* joins the next generation
RECURSIVE VisitChildren(_, _, _)
VisitChildren(children, indegree_map, zero_indegree) ==
    IF children = <<>> THEN [indegree_map |-> indegree_map,
                             zero_indegree |-> zero_indegree]
    ELSE LET child == Head(children)
             d == indegree_map[child] - 1
         IN  VisitChildren(Tail(children),
                           [indegree_map EXCEPT ![child] = d],
                           IF d = 0 THEN Append(zero_indegree, child)
                           ELSE zero_indegree)

RECURSIVE VisitGeneration(_, _, _, _)
VisitGeneration(G, this_generation, indegree_map, zero_indegree) ==
    IF this_generation = <<>> THEN [indegree_map |-> indegree_map,
                                    zero_indegree |-> zero_indegree]
    ELSE LET r == VisitChildren(G.succ[Head(this_generation)],
                                indegree_map, zero_indegree)
         IN  VisitGeneration(G, Tail(this_generation),
                             r.indegree_map, r.zero_indegree)

\* nx.topological_generations flattened (nx.topological_sort): Kahn's
\* algorithm.  unfeasible is the NetworkXUnfeasible it raises when nodes with
\* positive in-degree remain.
RECURSIVE TopologicalLoop(_, _, _, _)
TopologicalLoop(G, indegree_map, zero_indegree, order) ==
    IF zero_indegree = <<>>
    THEN [order |-> order,
          unfeasible |-> \E n \in NodeSet(G) : indegree_map[n] > 0]
    ELSE LET r == VisitGeneration(G, zero_indegree, indegree_map, <<>>)
         IN  TopologicalLoop(G, r.indegree_map, r.zero_indegree,
                             order \o zero_indegree)

\* the nodes in insertion order instead of a topological order
topological_sort_unsorted(G) ==
    [order |-> G.nodes,
     unfeasible |-> TopologicalLoop(G,
                        [n \in NodeSet(G) |-> in_degree(G, n)],
                        SelectSeq(G.nodes, LAMBDA n : in_degree(G, n) = 0),
                        <<>>).unfeasible]

topological_sort(G) ==
    TopologicalLoop(G,
                    [n \in NodeSet(G) |-> in_degree(G, n)],
                    SelectSeq(G.nodes, LAMBDA n : in_degree(G, n) = 0),
                    <<>>)

\* a test for acyclicity that rejects the graph without nodes
is_directed_acyclic_graph_nonempty(G) ==
    Len(G.nodes) > 0 /\ ~topological_sort(G).unfeasible

\* nx.is_directed_acyclic_graph(G)
is_directed_acyclic_graph(G) == ~topological_sort(G).unfeasible

\* breadth-first search from the frontier along next[n], the set of nodes
\* one step away from n
RECURSIVE Bfs(_, _, _)
Bfs(next, frontier, visited) ==
    IF frontier = {} THEN visited
    ELSE CHOOSE r \in { Bfs(next, found, visited \cup found) :
                          found \in { (UNION { next[n] : n \in frontier })
                                          \ visited } } : TRUE

\* the direct successors only
descendants_one_step(G, source) == Range(G.succ[source]) \ {source}

\* nx.descendants(G, source): the nodes a breadth-first search from source
\* reaches, source itself left out
descendants(G, source) ==
    Bfs([n \in NodeSet(G) |-> Range(G.succ[n])], {source}, {source})
        \ {source}

\* nx.ancestors(G, source): the same search against the edges
ancestors(G, source) ==
    Bfs([n \in NodeSet(G) |-> {u \in NodeSet(G) : HasEdge(G, u, n)}],
        {source}, {source}) \ {source}

\* for s in targets: g.add_edge(u, s)
RECURSIVE AddEdgesFrom(_, _, _)
AddEdgesFrom(G, u, targets) ==
    IF targets = <<>> THEN G
    ELSE AddEdgesFrom(AddEdge(G, u, Head(targets)), u, Tail(targets))

\* for s in origins: g.add_edge(s, v)
RECURSIVE AddEdgesTo(_, _, _)
AddEdgesTo(G, origins, v) ==
    IF origins = <<>> THEN G
    ELSE AddEdgesTo(AddEdge(G, Head(origins), v), Tail(origins), v)

\* the smaller of two distances, <<>> being infinity
MinDist(d1, d2) ==
    IF d1 = <<>> THEN d2
    ELSE IF d2 = <<>> THEN d1
    ELSE IF d1[1] <= d2[1] THEN d1 ELSE d2

\* the smallest of a finite set of distances
RECURSIVE MinOf(_)
MinOf(ds) ==
    IF ds = {} THEN <<>>
    ELSE LET d == CHOOSE x \in ds : TRUE
         IN  MinDist(d, MinOf(ds \ {d}))

\* one round of Bellman-Ford: every edge u -> v is relaxed,
\* dist[v] = min(dist[v], dist[u] + weight[u, v])
Relax(G, weight, dist) ==
    [v \in NodeSet(G) |->
        MinOf({dist[v]} \cup
              { <<dist[u][1] + weight[u, v]>> :
                    u \in {x \in NodeSet(G) :
                               HasEdge(G, x, v) /\ dist[x] # <<>>} })]

\* len(G) - 1 rounds of relaxation, each on the distances of the round
\* before
RECURSIVE RelaxRounds(_, _, _, _)
RelaxRounds(G, weight, dist, rounds) ==
    IF rounds = 0 THEN dist
    ELSE CHOOSE result \in { RelaxRounds(G, weight, d, rounds - 1) :
                               d \in { Relax(G, weight, dist) } } : TRUE

\* the distances Bellman-Ford reaches from source after len(G) - 1 rounds
BellmanFordDist(G, source, weight) ==
    RelaxRounds(G, weight,
                [n \in NodeSet(G) |-> IF n = source THEN <<0>> ELSE <<>>],
                Len(G.nodes) - 1)

\* a distance still drops after len(G) - 1 rounds: a negative cycle can be
\* reached from source, and networkx raises NetworkXUnbounded
NegativeCycle(G, weight, dist) == Relax(G, weight, dist) # dist

\* the predecessors Bellman-Ford records for v: the nodes u whose edge
\* u -> v attains dist[v]
Pred(G, weight, dist, v) ==
    { u \in NodeSet(G) : /\ HasEdge(G, u, v)
                         /\ dist[u] # <<>>
                         /\ dist[v] # <<>>
                         /\ dist[u][1] + weight[u, v] = dist[v][1] }

\* _build_paths_from_predecessors: the paths from source to v that walk the
\* predecessor lists backwards without visiting a node twice.  Which of them
\* comes first depends on the order in which networkx filled the lists, so
\* all of them are kept.
RECURSIVE PathsFromPredecessors(_, _, _, _, _, _)
PathsFromPredecessors(G, weight, dist, source, v, seen) ==
    IF v = source THEN { <<source>> }
    ELSE UNION { { Append(p, v) :
                     p \in PathsFromPredecessors(G, weight, dist, source, u,
                                                 seen \cup {u}) } :
                 u \in Pred(G, weight, dist, v) \ seen }

\* nx.bellman_ford_path(G, source, target, weight): unbounded when it raises
\* NetworkXUnbounded, else the paths it can return, none of them when it
\* raises NetworkXNoPath
bellman_ford_path(G, source, target, weight) ==
    LET Outcome(dist) ==
            IF NegativeCycle(G, weight, dist)
            THEN [unbounded |-> TRUE, paths |-> {}]
            ELSE IF dist[target] = <<>>
            THEN [unbounded |-> FALSE, paths |-> {}]
            ELSE [unbounded |-> FALSE,
                  paths |-> PathsFromPredecessors(G, weight, dist, source,
                                                  target, {target})]
    IN  CHOOSE r \in { Outcome(d) :
                         d \in { BellmanFordDist(G, source, weight) } } : TRUE

\* ------------------------------------------------------------------------
\* Mutations
\* ------------------------------------------------------------------------

\* HybridChain.__init__
HybridChain(id) == [chain_id |-> id, _entities |-> <<>>, graph |-> DiGraph]

\* the chain object
self == [chain_id |-> chain_id, _entities |-> _entities, graph |-> graph]

Init ==
    /\ _entities = <<>>
    /\ graph = DiGraph
    /\ last = Call("init", None, "ok", None)

\* HybridChain.add_entity on the chain object c
add_entity(c, entity) ==
    [c EXCEPT !._entities = DictSet(c._entities, entity.id, entity),
              !.graph = add_node(c.graph, entity.id, entity.type, entity)]

AddEntity(entity) ==
    \E c \in {add_entity(self, entity)} :
        /\ _entities' = c._entities
        /\ graph' = c.graph
        /\ last' = Call("add_entity", entity, "ok", None)

\* add_relationship without its check of the target
MissingEndpointSourceOnly(entities, rel) ==
    IF ~HasKey(entities, rel.source_id) THEN "source" ELSE None

\* the endpoint add_relationship finds missing in the dict entities, None
\* when both are present
MissingEndpoint(entities, rel) ==
    IF ~HasKey(entities, rel.source_id) THEN "source"
    ELSE IF ~HasKey(entities, rel.target_id) THEN "target"
    ELSE None

\* HybridChain.add_relationship on the chain object c: raised names the
\* endpoint of the ValueError, None when the edge was added
add_relationship(c, rel) ==
    IF MissingEndpoint(c._entities, rel) # None
    THEN [raised |-> MissingEndpoint(c._entities, rel), chain |-> c]
    ELSE [raised |-> None,
          chain |-> [c EXCEPT !.graph =
                        add_edge(c.graph, rel.source_id, rel.target_id,
                                 rel.edge_type, rel.resource_id,
                                 rel.description)]]

\* add_relationship that checks the target only after it has added the edge
AddRelationshipLateCheck(rel) ==
    IF ~HasEntity(rel.source_id)
    THEN /\ last' = Call("add_relationship", rel, "ValueError", "source")
         /\ UNCHANGED chain
    ELSE /\ \/ Len(relationships) < MaxRels
            \/ HasEdge(graph, rel.source_id, rel.target_id)
         /\ graph' = add_edge(graph, rel.source_id, rel.target_id,
                              rel.edge_type, rel.resource_id, rel.description)
         /\ last' = IF ~HasEntity(rel.target_id)
                    THEN Call("add_relationship", rel, "ValueError", "target")
                    ELSE Call("add_relationship", rel, "ok", None)
         /\ UNCHANGED _entities

AddRelationship(rel) ==
    \E r \in {add_relationship(self, rel)} :
        /\ r.raised = None =>
               \/ Len(relationships) < MaxRels
               \/ HasEdge(graph, rel.source_id, rel.target_id)
        /\ _entities' = r.chain._entities
        /\ graph' = r.chain.graph
        /\ last' = IF r.raised # None
                   THEN Call("add_relationship", rel, "ValueError", r.raised)
                   ELSE Call("add_relationship", rel, "ok", None)

\* ------------------------------------------------------------------------
\* Queries of HybridChain
\* ------------------------------------------------------------------------

\* HybridChain.is_valid_dag
IsValidDag ==
    /\ last' = Call("is_valid_dag", None, "ok",
                    is_directed_acyclic_graph(graph))
    /\ UNCHANGED chain

\* HybridChain.get_chain
GetChain ==
    /\ last' = IF ~is_directed_acyclic_graph(graph)
               THEN Call("get_chain", None, "ValueError", <<>>)
               ELSE Call("get_chain", None, "ok", topological_sort(graph).order)
    /\ UNCHANGED chain

\* _weight without the negation: the search then minimises the duration
_weight_not_negated(u, v) ==
    LET entity == get_entity(v)
    IN  IF entity.type = "Action" /\ entity.duration_hours # <<>>
           /\ entity.duration_hours[1] # 0
        THEN entity.duration_hours[1]
        ELSE 0

\* _weight inside get_critical_path: minus the duration of the target node
\* when that node is an Action with a duration, else 0
_weight(u, v) ==
    LET entity == get_entity(v)
    IN  IF entity.type = "Action" /\ entity.duration_hours # <<>>
           /\ entity.duration_hours[1] # 0
        THEN -entity.duration_hours[1]
        ELSE 0

\* weight=lambda u, v, d: _weight(u, v) on the node pairs of G
WeightOn(G) == [u \in NodeSet(G), v \in NodeSet(G) |-> _weight(u, v)]

\* [n for n in self.graph.nodes if self.graph.in_degree(n) == 0]
sources == SelectSeq(graph.nodes, LAMBDA n : in_degree(graph, n) = 0)

\* [n for n in self.graph.nodes if self.graph.out_degree(n) == 0]
sinks == SelectSeq(graph.nodes, LAMBDA n : out_degree(graph, n) = 0)

\* the copy g of the graph with the virtual source and sink added
g ==
    AddEdgesTo(AddEdgesFrom(AddNode(AddNode(graph, SRC), SINK), SRC, sources),
               sinks, SINK)

\* [n for n in path if n not in ("__src__", "__sink__")]
StripVirtual(path) == SelectSeq(path, LAMBDA n : n \notin {SRC, SINK})

\* what the search on g makes get_critical_path return or raise
CriticalPathOutcome(found) ==
    IF found.unbounded
    THEN { Call("get_critical_path", None, "NetworkXUnbounded", <<>>) }
    ELSE IF found.paths = {}
    THEN { Call("get_critical_path", None, "ok", <<>>) }
    ELSE { Call("get_critical_path", None, "ok", StripVirtual(path)) :
             path \in found.paths }

\* get_critical_path without its check for cycles
get_critical_path_unchecked ==
    IF Len(graph.nodes) = 0
    THEN { Call("get_critical_path", None, "ok", <<>>) }
    ELSE IF sources = <<>> \/ sinks = <<>>
    THEN { Call("get_critical_path", None, "ok",
                topological_sort(graph).order) }
    ELSE UNION { CriticalPathOutcome(found) :
                   found \in { bellman_ford_path(G, SRC, SINK,
                                                   WeightOn(G)) :
                                 G \in {g} } }

\* what HybridChain.get_critical_path can return or raise
get_critical_path ==
    IF ~is_directed_acyclic_graph(graph)
    THEN { Call("get_critical_path", None, "ValueError", <<>>) }
    ELSE IF Len(graph.nodes) = 0
    THEN { Call("get_critical_path", None, "ok", <<>>) }
    ELSE IF sources = <<>> \/ sinks = <<>>
    THEN { Call("get_critical_path", None, "ok",
                topological_sort(graph).order) }
    ELSE UNION { CriticalPathOutcome(found) :
                   found \in { bellman_ford_path(G, SRC, SINK,
                                                   WeightOn(G)) :
                                 G \in {g} } }

\* get_critical_path adding its virtual nodes to self.graph instead of a copy
GetCriticalPathInPlace ==
    /\ \E r \in get_critical_path : last' = r
    /\ graph' = g
    /\ UNCHANGED _entities

\* HybridChain.get_critical_path
GetCriticalPath ==
    /\ \E r \in get_critical_path : last' = r
    /\ UNCHANGED chain

\* HybridChain.intervention_score
InterventionScore(node_id) ==
    /\ last' = IF ~HasNode(node_id)
               THEN Call("intervention_score", node_id, "ValueError", 0)
               ELSE Call("intervention_score", node_id, "ok",
                         Cardinality(descendants(graph, node_id)))
    /\ UNCHANGED chain

\* HybridChain.get_entity
GetEntity(entity_id) ==
    /\ last' = Call("get_entity", entity_id, "ok", get_entity(entity_id))
    /\ UNCHANGED chain

\* isinstance against a class every entity is an instance of
get_entities_by_type_any(entity_type) == _entities

\* HybridChain.get_entities_by_type: no variant is a subclass of another,
\* so isinstance(e, entity_type) compares the classes
get_entities_by_type(entity_type) ==
    SelectSeq(_entities, LAMBDA e : e.type = entity_type)

GetEntitiesByType(entity_type) ==
    /\ last' = Call("get_entities_by_type", entity_type, "ok",
                    get_entities_by_type(entity_type))
    /\ UNCHANGED chain

\* ------------------------------------------------------------------------
\* analysis.py
\* ------------------------------------------------------------------------

\* the entry find_chokepoints builds for one node, given its descendants
\* and its ancestors
ChokepointEntry(node_id, desc, anc) ==
    [node_id |-> node_id,
     entity_type |-> get_entity(node_id).type,
     downstream_count |-> Cardinality(desc),
     upstream_count |-> Cardinality(anc),
     impact |-> Cardinality(desc)]

\* the list results of find_chokepoints before it is sorted, each entry with
\* its sort key, from the i-th node on
RECURSIVE ChokepointResults(_)
ChokepointResults(i) ==
    IF i > Len(graph.nodes) THEN <<>>
    ELSE LET e == ChokepointEntry(graph.nodes[i],
                                  descendants(graph, graph.nodes[i]),
                                  ancestors(graph, graph.nodes[i]))
         IN  <<[key |-> e.impact, item |-> e]>> \o ChokepointResults(i + 1)

\* analysis.find_chokepoints(chain, top_n)
find_chokepoints(top_n) == Take(SortReverse(ChokepointResults(1)), top_n)

FindChokepoints(top_n) ==
    /\ last' = Call("find_chokepoints", top_n, "ok", find_chokepoints(top_n))
    /\ UNCHANGED chain

\* round(score, 2) on a score given in thousandths, the result in
\* hundredths: Python rounds an exact tie to the even neighbour
Round2(x) ==
    LET q == x \div 10
        r == x % 10
    IN  IF r < 5 THEN q
        ELSE IF r > 5 THEN q + 1
        ELSE IF q % 2 = 0 THEN q ELSE q + 1

\* the score intervention_ranking gives a node, in hundredths
RankingScore(entity, downstream, in_deg) ==
    IF entity.type = "Action"
    THEN Round2(downstream * (1 + in_deg) *
                (2000 - entity.success_probability[1]))
    ELSE Round2(downstream * (1 + in_deg) * 1000)

\* the entry intervention_ranking builds for one node
RankingEntry(node_id, downstream, in_deg, out_deg) ==
    [node_id |-> node_id,
     entity_type |-> get_entity(node_id).type,
     downstream_impact |-> downstream,
     in_degree |-> in_deg,
     out_degree |-> out_deg,
     score |-> RankingScore(get_entity(node_id), downstream, in_deg)]

\* the list rankings of intervention_ranking before it is sorted, each entry
\* with its sort key, from the i-th node on
RECURSIVE Rankings(_)
Rankings(i) ==
    IF i > Len(graph.nodes) THEN <<>>
    ELSE LET e == RankingEntry(graph.nodes[i],
                     Cardinality(descendants(graph, graph.nodes[i])),
                     in_degree(graph, graph.nodes[i]),
                     out_degree(graph, graph.nodes[i]))
         IN  <<[key |-> e.score, item |-> e]>> \o Rankings(i + 1)

\* analysis.intervention_ranking(chain)
intervention_ranking == SortReverse(Rankings(1))

InterventionRanking ==
    /\ last' = Call("intervention_ranking", None, "ok", intervention_ranking)
    /\ UNCHANGED chain

\* {e.id for e in chain.get_entities_by_type(Narrative)}
narrative_ids == { e.id : e \in Range(get_entities_by_type("Narrative")) }

\* the depth-first search of nx.all_simple_paths: the paths that extend
\* visited by one of children and end at target, in the order of the search
RECURSIVE SimplePathsThrough(_, _, _, _)
SimplePathsThrough(G, visited, children, target) ==
    IF children = <<>> THEN <<>>
    ELSE LET child == Head(children)
             rest == SimplePathsThrough(G, visited, Tail(children), target)
         IN  IF child \in Range(visited) THEN rest
             ELSE IF child = target THEN <<Append(visited, child)>> \o rest
             ELSE SimplePathsThrough(G, Append(visited, child),
                                     G.succ[child], target) \o rest

\* nx.all_simple_paths(G, source, target).  For source = target networkx
\* up to 3.1 yields nothing and networkx from 3.2 on yields the path
\* [source]; the chain does not fix the version, and yields_source tells
\* which of the two is installed.
all_simple_paths(G, source, target, yields_source) ==
    IF source = target
    THEN IF yields_source THEN << <<source>> >> ELSE <<>>
    ELSE SimplePathsThrough(G, <<source>>, G.succ[source], target)

\* for sink in sinks: the paths from source that hold a Narrative
RECURSIVE ThreadsToSinks(_, _, _)
ThreadsToSinks(source, remaining, yields_source) ==
    IF remaining = <<>> THEN <<>>
    ELSE SelectSeq(all_simple_paths(graph, source, Head(remaining),
                                    yields_source),
                   LAMBDA path : Range(path) \cap narrative_ids # {})
         \o ThreadsToSinks(source, Tail(remaining), yields_source)

\* for source in sources
RECURSIVE ThreadsFromSources(_, _)
ThreadsFromSources(remaining, yields_source) ==
    IF remaining = <<>> THEN <<>>
    ELSE ThreadsToSinks(Head(remaining), sinks, yields_source)
         \o ThreadsFromSources(Tail(remaining), yields_source)

\* analysis.narrative_threads(chain)
narrative_threads(yields_source) ==
    IF narrative_ids = {} THEN <<>>
    ELSE ThreadsFromSources(sources, yields_source)

NarrativeThreads ==
    /\ \E yields_source \in BOOLEAN :
           last' = Call("narrative_threads", None, "ok",
                        narrative_threads(yields_source))
    /\ UNCHANGED chain

\* the entry capability_requirements builds for a Capability entity (the
\* names of the entities are not part of the model)
CapabilityEntry(entity) ==
    [id |-> entity.id, name |-> None, type |-> entity.capability_type[1],
     source |-> "entity"]

\* the entry for the first tool of an Action only
ToolEntriesFirstOnly(entity) ==
    [i \in DOMAIN Take(entity.tools, 1) |->
        [id |-> entity.id \o ":" \o entity.tools[i],
         name |-> entity.tools[i], type |-> "tooling",
         source |-> "action:" \o entity.id]]

\* for tool in entity.tools: the entry capability_requirements builds
ToolEntries(entity) ==
    [i \in DOMAIN entity.tools |->
        [id |-> entity.id \o ":" \o entity.tools[i],
         name |-> entity.tools[i], type |-> "tooling",
         source |-> "action:" \o entity.id]]

\* for entity in chain.get_entities_by_type(Action): its tool entries
RECURSIVE ActionCapabilities(_)
ActionCapabilities(actions) ==
    IF actions = <<>> THEN <<>>
    ELSE ToolEntries(Head(actions)) \o ActionCapabilities(Tail(actions))

\* analysis.capability_requirements(chain)
capability_requirements ==
    LET explicit == get_entities_by_type("Capability")
    IN  [i \in DOMAIN explicit |-> CapabilityEntry(explicit[i])]
            \o ActionCapabilities(get_entities_by_type("Action"))

CapabilityRequirements ==
    /\ last' = Call("capability_requirements", None, "ok",
                    capability_requirements)
    /\ UNCHANGED chain

Next ==
    \/ \E entity \in EntityInputs : AddEntity(entity)
    \/ \E rel \in RelationshipInputs : AddRelationship(rel)
    \/ IsValidDag
    \/ GetChain
    \/ GetCriticalPath
    \/ \E node_id \in Ids : InterventionScore(node_id)
    \/ \E top_n \in 0..MaxLimit : FindChokepoints(top_n)
    \/ InterventionRanking

Spec == Init /\ [][Next]_vars

\* the chain under its mutations and its queries by id and by variant
NextQueries ==
    \/ \E entity \in EntityInputs : AddEntity(entity)
    \/ \E rel \in RelationshipInputs : AddRelationship(rel)
    \/ \E entity_id \in Ids : GetEntity(entity_id)
    \/ \E entity_type \in Variants : GetEntitiesByType(entity_type)
    \/ NarrativeThreads
    \/ CapabilityRequirements

SpecQueries == Init /\ [][NextQueries]_vars

\* the entities and relationships of a chain that is then only read: a
\* Narrative, an Action, a Capability, and relationships that can close a
\* cycle
ReadOnlyEntities ==
    { e \in EntityInputs : e.id = "a" => e.type = "Narrative" }

ReadOnlyRelationships ==
    { rel \in RelationshipInputs :
        <<rel.source_id, rel.target_id>> \in
            { <<"a", "b">>, <<"b", "a">>, <<"b", SRC>> } }

\* every read-only query on such a chain
NextReadOnly ==
    \/ \E entity \in ReadOnlyEntities : AddEntity(entity)
    \/ \E rel \in ReadOnlyRelationships : AddRelationship(rel)
    \/ IsValidDag
    \/ GetChain
    \/ GetCriticalPath
    \/ \E node_id \in Ids : InterventionScore(node_id)
    \/ \E entity_id \in Ids : GetEntity(entity_id)
    \/ \E entity_type \in Variants : GetEntitiesByType(entity_type)
    \/ \E top_n \in 0..MaxLimit : FindChokepoints(top_n)
    \/ InterventionRanking
    \/ NarrativeThreads
    \/ CapabilityRequirements

SpecReadOnly == Init /\ [][NextReadOnly]_vars

\* ------------------------------------------------------------------------
\* io.py: JSON and STIX export
\* ------------------------------------------------------------------------

\* models.py: the values of EdgeType
EdgeTypes == {"dependency", "enables", "amplifies", "triggers"}

\* e.model_dump(mode="json") | {"_type": type(e).__name__}: the fields of
\* the entity as JSON values (None is null, an enum is its value) and the
\* name of its class under "_type"
EntityToJson(e) ==
    [id |-> e.id, _type |-> e.type,
     duration_hours |-> e.duration_hours,
     success_probability |-> e.success_probability,
     tools |-> e.tools,
     capability_type |-> e.capability_type]

\* io.to_json(chain): the JSON document, entities as the items of a JSON
\* object in dict order, relationships as a JSON array
to_json(c) ==
    [id |-> c.chain_id,
     entities |-> [i \in DOMAIN c._entities |->
                      [key |-> c._entities[i].id,
                       value |-> EntityToJson(c._entities[i])]],
     relationships |-> RelationshipsOf(c.graph)]

ToJson ==
    /\ last' = Call("to_json", None, "ok", to_json(self))
    /\ UNCHANGED chain

\* type_map of from_json: the class for each value of "_type"
type_map == [name \in Variants |-> name]

\* etype = edata.pop("_type"); cls = type_map[etype]; cls(**edata)
EntityFromJson(edata) ==
    [id |-> edata.id, type |-> type_map[edata._type],
     duration_hours |-> edata.duration_hours,
     success_probability |-> edata.success_probability,
     tools |-> edata.tools,
     capability_type |-> edata.capability_type]

\* for eid, edata in data["entities"].items(): chain.add_entity(...)
RECURSIVE LoadEntities(_, _)
LoadEntities(c, items) ==
    IF items = <<>> THEN c
    ELSE LoadEntities(add_entity(c, EntityFromJson(Head(items).value)),
                      Tail(items))

\* a Relationship built without reading the edge type of the document
RelationshipFromJsonDefaultType(rel) ==
    Relationship(rel.source, rel.target, "dependency", rel.resource_id,
                 rel.description)

\* Relationship(source_id=rel["source"], target_id=rel["target"],
\* edge_type=EdgeType(rel.get("edge_type", "dependency")), ...)
RelationshipFromJson(rel) ==
    Relationship(rel.source, rel.target, rel.edge_type, rel.resource_id,
                 rel.description)

\* for rel in data["relationships"]: chain.add_relationship(...); raised is
\* the ValueError of EdgeType(...) or of add_relationship, which ends the
\* loop
RECURSIVE LoadRelationships(_, _)
LoadRelationships(c, rels) ==
    IF rels = <<>> THEN [raised |-> None, chain |-> c]
    ELSE IF Head(rels).edge_type \notin EdgeTypes
    THEN [raised |-> "edge_type", chain |-> c]
    ELSE LET r == add_relationship(c, RelationshipFromJson(Head(rels)))
         IN  IF r.raised # None THEN r
             ELSE LoadRelationships(r.chain, Tail(rels))

\* io.from_json(json_str) on the document data
from_json(data) ==
    LoadRelationships(LoadEntities(HybridChain(data.id), data.entities),
                      data.relationships)

\* from_json applied to the document the last to_json returned
FromJson ==
    /\ last.op = "to_json"
    /\ LET r == from_json(last.value)
       IN  last' = Call("from_json", last.value,
                        IF r.raised = None THEN "ok" ELSE "ValueError",
                        r.chain)
    /\ UNCHANGED chain

\* io._ENTITY_TO_STIX
_ENTITY_TO_STIX ==
    [name \in Variants |->
        CASE name = "Actor" -> "threat-actor"
          [] name = "Action" -> "attack-pattern"
          [] name = "Capability" -> "tool"
          [] name = "Infrastructure" -> "infrastructure"
          [] name = "Narrative" -> "campaign"
          [] name = "Target" -> "identity"
          [] name = "Effect" -> "impact"]

\* _ENTITY_TO_STIX.get(etype, "x-threadmap-entity")
StixType(etype) ==
    IF etype \in DOMAIN _ENTITY_TO_STIX THEN _ENTITY_TO_STIX[etype]
    ELSE "x-threadmap-entity"

\* the object to_stix_bundle builds for an entity
StixEntity(entity) ==
    [type |-> StixType(entity.type),
     id |-> StixType(entity.type) \o "--" \o entity.id,
     x_threadmap |-> EntityToJson(entity)]

\* a relationship object whose references do not look up the entities
StixRelationshipUntyped(rel) ==
    [type |-> "relationship",
     id |-> "relationship--" \o rel.source \o "--" \o rel.target,
     relationship_type |-> rel.edge_type,
     source_ref |-> "x-threadmap-entity--" \o rel.source,
     target_ref |-> "x-threadmap-entity--" \o rel.target]

\* the object to_stix_bundle builds for a relationship
StixRelationship(rel) ==
    [type |-> "relationship",
     id |-> "relationship--" \o rel.source \o "--" \o rel.target,
     relationship_type |-> rel.edge_type,
     source_ref |-> StixType(get_entity(rel.source).type)
                        \o "--" \o rel.source,
     target_ref |-> StixType(get_entity(rel.target).type)
                        \o "--" \o rel.target]

\* io.to_stix_bundle(chain)
to_stix_bundle ==
    [type |-> "bundle",
     id |-> "bundle--" \o chain_id,
     objects |-> [i \in DOMAIN _entities |-> StixEntity(_entities[i])]
                 \o [i \in DOMAIN relationships |->
                         StixRelationship(relationships[i])]]

ToStixBundle ==
    /\ last' = Call("to_stix_bundle", None, "ok", to_stix_bundle)
    /\ UNCHANGED chain

\* the relationships handed to add_relationship before an export: loops
\* and cycles, every edge type, with and without resource and description
IORelationshipInputs ==
    { Relationship(s, t, "dependency", None, "") : s \in {"a", "b"},
                                                   t \in {"a", "b"} }
    \cup { Relationship("a", "b", "triggers", SRC, "uses"),
           Relationship(SRC, "a", "enables", None, ""),
           Relationship("b", SRC, "amplifies", "a", "") }

NextIO ==
    \/ \E entity \in EntityInputs : AddEntity(entity)
    \/ \E rel \in IORelationshipInputs : AddRelationship(rel)
    \/ ToJson
    \/ FromJson
    \/ ToStixBundle

SpecIO == Init /\ [][NextIO]_vars

\* ------------------------------------------------------------------------
\* network_adapter.py: a chain built from network intel and an operation
\* plan
\* ------------------------------------------------------------------------

\* the sequences over S of length at most n
SeqsUpTo(S, n) == UNION { [1..k -> S] : k \in 0..n }

\* what the network engine hands over: intel.top_nodes(...) with their
\* influence scores (in thousandths), the ids of intel.communities, and the
\* plan with its entry points, amplification chain, weak links and risk
\* nodes
PlanInputs ==
    [top_nodes : { <<>>,
                   <<[node |-> "x", influence_score |-> 800]>>,
                   <<[node |-> "x", influence_score |-> 800],
                     [node |-> "y", influence_score |-> 0]>> },
     communities : { <<>>, <<0>> },
     entry_points : SeqsUpTo({ [node |-> "x", influence_score |-> 700],
                               [node |-> "z", influence_score |-> 990] },
                             MaxEntryPoints),
     amplification_chain : SeqsUpTo({ [node |-> "y"] }, MaxAmplification),
     weak_links : { <<>>, <<[node |-> "x"]>> },
     risk_nodes : { <<>>, <<[node |-> "z"]>> }]

\* for op in top_nodes: an Actor unless op.influence_score <= 0
RECURSIVE AddActors(_, _)
AddActors(c, top_nodes) ==
    IF top_nodes = <<>> THEN c
    ELSE AddActors(IF Head(top_nodes).influence_score <= 0 THEN c
                   ELSE add_entity(c, Entity("actor-" \o Head(top_nodes).node,
                                             "Actor", <<>>, <<>>)),
                   Tail(top_nodes))

\* for cid, members in intel.communities.items(): an Infrastructure
RECURSIVE AddCommunities(_, _)
AddCommunities(c, communities) ==
    IF communities = <<>> THEN c
    ELSE AddCommunities(
             add_entity(c, Entity("community-" \o ToString(Head(communities)),
                                  "Infrastructure", <<>>, <<>>)),
             Tail(communities))

\* min(a, b)
Min(a, b) == IF a <= b THEN a ELSE b

\* a loop that links every action to the first action instead of the
\* previous one
RECURSIVE AddActionsFromFirst(_, _, _, _, _)
AddActionsFromFirst(st, prefix, probabilities, edge_type, i) ==
    IF st.raised # None \/ i >= Len(probabilities) THEN st
    ELSE LET action == Entity(prefix \o ToString(i), "Action", <<>>,
                              <<probabilities[i + 1]>>)
             c == add_entity(st.chain, action)
             r == IF st.prev_action_id # None
                  THEN add_relationship(c,
                           Relationship(st.prev_action_id, action.id,
                                        edge_type, None, ""))
                  ELSE [raised |-> None, chain |-> c]
         IN  AddActionsFromFirst(
                 [chain |-> r.chain,
                  prev_action_id |-> IF st.prev_action_id # None
                                     THEN st.prev_action_id ELSE action.id,
                  raised |-> r.raised],
                 prefix, probabilities, edge_type, i + 1)

\* the two loops of _add_plan_entities over plan.entry_points and
\* plan.amplification_chain, from index i on: the Action <prefix><i> is
\* added and, if there is a previous action, linked from it; st carries the
\* chain, prev_action_id and the ValueError a rejected relationship raises
RECURSIVE AddActions(_, _, _, _, _)
AddActions(st, prefix, probabilities, edge_type, i) ==
    IF st.raised # None \/ i >= Len(probabilities) THEN st
    ELSE LET action == Entity(prefix \o ToString(i), "Action", <<>>,
                              <<probabilities[i + 1]>>)
             c == add_entity(st.chain, action)
             r == IF st.prev_action_id # None
                  THEN add_relationship(c,
                           Relationship(st.prev_action_id, action.id,
                                        edge_type, None, ""))
                  ELSE [raised |-> None, chain |-> c]
         IN  AddActions([chain |-> r.chain, prev_action_id |-> action.id,
                         raised |-> r.raised],
                        prefix, probabilities, edge_type, i + 1)

\* for i, x in enumerate(items): add Entity(<prefix><i>) of the variant
RECURSIVE AddNumbered(_, _, _, _, _)
AddNumbered(c, prefix, variant, count, i) ==
    IF i >= count THEN c
    ELSE AddNumbered(add_entity(c, Entity(prefix \o ToString(i), variant,
                                          <<>>, <<>>)),
                     prefix, variant, count, i + 1)

\* the Target, the weak links and the risk nodes of _add_plan_entities
AddPlanExtras(c, plan) ==
    AddNumbered(
        AddNumbered(
            IF plan.entry_points # <<>>
            THEN add_entity(c, Entity("target-network", "Target", <<>>, <<>>))
            ELSE c,
            "weakness-", "Capability", Len(plan.weak_links), 0),
        "risk-", "Narrative", Len(plan.risk_nodes), 0)

\* the Effect and the relationship from the last action to it
AddEffect(st) ==
    LET c == add_entity(st.chain, Entity("effect-reach", "Effect", <<>>, <<>>))
    IN  IF st.raised # None THEN st
        ELSE IF st.prev_action_id # None
        THEN add_relationship(c, Relationship(st.prev_action_id,
                                              "effect-reach", "triggers",
                                              None, ""))
        ELSE [raised |-> None, chain |-> c]

\* network_adapter._add_plan_entities(chain, plan, intel)
_add_plan_entities(c, plan) ==
    LET entries == AddActions(
                       [chain |-> c, prev_action_id |-> None,
                        raised |-> None],
                       "entry-",
                       [k \in DOMAIN plan.entry_points |->
                           Min(plan.entry_points[k].influence_score, 950)],
                       "enables", 0)
        amplified == AddActions(
                         entries, "amplify-",
                         [k \in DOMAIN plan.amplification_chain |-> 600],
                         "amplifies", 0)
    IN  AddEffect([amplified EXCEPT
                      !.chain = IF amplified.raised # None THEN @
                                ELSE AddPlanExtras(@, plan)])

\* network_adapter.network_to_chain(intel, plan) with the default campaign
\* name; the plan is an object, which is true in "if plan:"
network_to_chain(input) ==
    _add_plan_entities(
        AddCommunities(AddActors(HybridChain("network-operation"),
                                 input.top_nodes),
                       input.communities),
        input)

\* the engine has produced its intel and its plan, and no chain exists yet
InitPlan ==
    /\ _entities = <<>>
    /\ graph = DiGraph
    /\ \E input \in PlanInputs :
           last = Call("plan_operation", None, "ok", input)

\* network_to_chain on the intel and the plan of the engine: the chain it
\* returns becomes the chain of the state
NetworkToChain ==
    /\ last.op = "plan_operation"
    /\ LET r == network_to_chain(last.value)
       IN  IF r.raised # None
           THEN /\ last' = Call("network_to_chain", last.value,
                                "ValueError", r.raised)
                /\ UNCHANGED chain
           ELSE /\ last' = Call("network_to_chain", last.value, "ok", None)
                /\ _entities' = r.chain._entities
                /\ graph' = r.chain.graph

NextPlan ==
    \/ NetworkToChain
    \/ IsValidDag
    \/ GetChain

SpecPlan == InitPlan /\ [][NextPlan]_vars

\* ------------------------------------------------------------------------
\* The chain of the test fixture simple_chain (tests/test_threadmap.py),
\* restricted to a1, act1, act2, act3, with two shortcuts
\* ------------------------------------------------------------------------

FixtureIds == {"a1", "act1", "act2", "act3"}

FixtureEntities ==
    { Entity("a1", "Actor", <<>>, <<>>),
      Entity("act1", "Action", <<24>>, <<500>>),
      Entity("act2", "Action", <<48>>, <<300>>),
      Entity("act3", "Action", <<12>>, <<500>>) }

FixtureRelationships ==
    { Relationship("a1", "act1", "triggers", None, ""),
      Relationship("act1", "act2", "dependency", None, ""),
      Relationship("act2", "act3", "dependency", None, ""),
      Relationship("a1", "act3", "enables", None, ""),
      Relationship("act1", "act3", "enables", None, "") }

NextFixture ==
    \/ \E entity \in FixtureEntities : AddEntity(entity)
    \/ \E rel \in FixtureRelationships : AddRelationship(rel)
    \/ IsValidDag
    \/ GetChain
    \/ GetCriticalPath

SpecFixture == Init /\ [][NextFixture]_vars

\* ------------------------------------------------------------------------
\* Properties
\* ------------------------------------------------------------------------

\* the relationships of the chain as a set of pairs <<source, target>>
Edges == { <<r.source, r.target>> : r \in Range(relationships) }

\* the transitive closure of a finite relation
RECURSIVE TransitiveClosure(_)
TransitiveClosure(R) ==
    LET step == R \cup { <<pq[1][1], pq[2][2]>> :
                            pq \in { x \in R \X R : x[1][2] = x[2][1] } }
    IN  IF step = R THEN R ELSE TransitiveClosure(step)

\* v can be reached from u along one or more relationships
Reaches(u, v) == <<u, v>> \in TransitiveClosure(Edges)

EntityIdSet == { _entities[i].id : i \in DOMAIN _entities }

\* the relationships contain a directed cycle (a self-loop is one)
HasCycle == \E n \in EntityIdSet : Reaches(n, n)

\* the other nodes that can be reached from n
Descendants(n) == { m \in EntityIdSet : Reaches(n, m) } \ {n}

\* the other nodes from which n can be reached
Ancestors(n) == { m \in EntityIdSet : Reaches(m, n) } \ {n}

InDegree(n) == Cardinality({ e \in Edges : e[2] = n })

OutDegree(n) == Cardinality({ e \in Edges : e[1] = n })

\* the directed paths of k nodes that visit no node twice
RECURSIVE SimplePaths(_)
SimplePaths(k) ==
    IF k = 1 THEN { <<n>> : n \in EntityIdSet }
    ELSE { Append(pv[1], pv[2]) :
             pv \in { x \in SimplePaths(k - 1) \X EntityIdSet :
                         /\ x[2] \notin Range(x[1])
                         /\ <<x[1][Len(x[1])], x[2]>> \in Edges } }

\* the paths from a node without incoming relationship to a node without
\* outgoing relationship
SourceSinkPaths ==
    { p \in UNION { SimplePaths(k) : k \in 1..Len(_entities) } :
        InDegree(p[1]) = 0 /\ OutDegree(p[Len(p)]) = 0 }

\* the duration of a node: an Action's duration_hours, 0 when it has none
\* and for every other entity
Duration(id) ==
    LET e == get_entity(id)
    IN  IF e.type = "Action" /\ e.duration_hours # <<>>
        THEN e.duration_hours[1] ELSE 0

RECURSIVE PathDuration(_)
PathDuration(p) ==
    IF p = <<>> THEN 0 ELSE Duration(Head(p)) + PathDuration(Tail(p))

\* C1: add_relationship is rejected exactly when its source or its target is
\* not an entity of the chain at that moment, and every relationship of the
\* chain has its source and its target among the entities.
C1_ReferentialIntegrity ==
    /\ [](\A r \in Range(relationships) :
              r.source \in EntityIdSet /\ r.target \in EntityIdSet)
    /\ [][last'.op = "add_relationship" =>
              (last'.status = "ok" <=>
                  /\ last'.arg.source_id \in EntityIdSet
                  /\ last'.arg.target_id \in EntityIdSet)]_vars

\* a relationship was rejected for its source while the chain holds
\* relationships
C1_Witness ==
    /\ last.op = "add_relationship"
    /\ last.status = "ValueError"
    /\ last.value = "source"
    /\ Len(relationships) >= 2

\* C2: a rejected add_relationship leaves the entities, the graph nodes and
\* the relationships as they were, and an add_relationship whose endpoints
\* are both entities of the chain is accepted and stored, whatever was
\* rejected before.
C2_RejectionChangesNothing ==
    [][last'.op = "add_relationship" =>
          /\ last'.status # "ok" =>
                 /\ _entities' = _entities
                 /\ graph'.nodes = graph.nodes
                 /\ relationships' = relationships
          /\ ( /\ last'.arg.source_id \in EntityIdSet
               /\ last'.arg.target_id \in EntityIdSet ) =>
                 /\ last'.status = "ok"
                 /\ <<last'.arg.source_id, last'.arg.target_id>> \in Edges']_vars

\* a relationship was rejected for its target alone: its source is an entity
C2_Witness ==
    /\ last.op = "add_relationship"
    /\ last.status = "ValueError"
    /\ last.value = "target"
    /\ last.arg.source_id \in EntityIdSet
    /\ last.arg.target_id \notin EntityIdSet

\* C3: a result of get_chain holds every entity id exactly once and puts the
\* source of every relationship before its target.
C3_ChainIsTopologicalPermutation ==
    (last.op = "get_chain" /\ last.status = "ok") =>
        /\ Len(last.value) = Len(_entities)
        /\ Range(last.value) = EntityIdSet
        /\ \A e \in Edges :
               Index(last.value, e[1]) < Index(last.value, e[2])

\* get_chain returned for a chain of three entities, one of them without
\* relationships
C3_Witness ==
    /\ last.op = "get_chain"
    /\ last.status = "ok"
    /\ Len(_entities) = 3
    /\ Edges # {}
    /\ \E id \in EntityIdSet : \A e \in Edges : id # e[1] /\ id # e[2]

\* C4 as stated: on a chain with a cycle is_valid_dag is false and
\* get_chain and get_critical_path fail without a result; on a chain without
\* a cycle is_valid_dag is true and neither query fails.
C4_CycleDecidesFailure ==
    /\ last.op = "is_valid_dag" => (last.value <=> ~HasCycle)
    /\ last.op \in {"get_chain", "get_critical_path"} =>
           IF HasCycle
           THEN last.status # "ok" /\ last.value = <<>>
           ELSE last.status = "ok"

\* C5: on a non-empty chain without a cycle the nodes that get_critical_path
\* returns carry at least the total duration of every path from a node
\* without incoming relationship to a node without outgoing relationship;
\* for a1 -> act1 -> act2 -> act3 with durations 0/24/48/12 the result has
\* act1 before act2 before act3.
C5_CriticalPathHasMaximumWeight ==
    (last.op = "get_critical_path" /\ last.status = "ok") =>
        /\ (_entities # <<>> /\ ~HasCycle) =>
               \A p \in SourceSinkPaths :
                   PathDuration(last.value) >= PathDuration(p)
        /\ ( /\ EntityIdSet = {"a1", "act1", "act2", "act3"}
             /\ Edges = {<<"a1", "act1">>, <<"act1", "act2">>,
                         <<"act2", "act3">>} ) =>
               /\ 0 < Index(last.value, "act1")
               /\ Index(last.value, "act1") < Index(last.value, "act2")
               /\ Index(last.value, "act2") < Index(last.value, "act3")

\* get_critical_path returned for the chain a1 -> act1 -> act2 -> act3
C5_Witness ==
    /\ last.op = "get_critical_path"
    /\ last.status = "ok"
    /\ EntityIdSet = {"a1", "act1", "act2", "act3"}
    /\ Edges = {<<"a1", "act1">>, <<"act1", "act2">>, <<"act2", "act3">>}
    /\ PathDuration(last.value) = 84

\* C6 as stated: on a non-empty chain without a cycle, whatever its ids,
\* get_critical_path returns a non-empty sequence of entity ids without
\* repetition that starts at a node without incoming relationship, ends at
\* a node without outgoing relationship and follows relationships.
C6_CriticalPathIsARealPath ==
    (last.op = "get_critical_path" /\ _entities # <<>> /\ ~HasCycle) =>
        /\ last.status = "ok"
        /\ last.value \in SourceSinkPaths

\* C7: intervention_score of an id of the chain is the number of other nodes
\* reachable from it, 0 without outgoing relationship; for any other id it
\* fails.
C7_InterventionScoreCountsDescendants ==
    last.op = "intervention_score" =>
        IF last.arg \in EntityIdSet
        THEN /\ last.status = "ok"
             /\ last.value = Cardinality(Descendants(last.arg))
             /\ OutDegree(last.arg) = 0 => last.value = 0
        ELSE last.status # "ok"

\* intervention_score counted a node once that it reaches along two paths
C7_Witness ==
    /\ last.op = "intervention_score"
    /\ last.status = "ok"
    /\ last.value = 2
    /\ \E m \in EntityIdSet \ {last.arg} :
           /\ <<last.arg, m>> \in Edges
           /\ \E k \in EntityIdSet \ {last.arg, m} :
                  <<last.arg, k>> \in Edges /\ <<k, m>> \in Edges

\* C8 as stated: the list intervention_ranking returns is sorted by score in
\* non-increasing order and holds no negative score, whatever
\* success_probability the Actions carry.
C8_RankingSortedAndNonNegative ==
    last.op = "intervention_ranking" =>
        /\ \A i \in 1..(Len(last.value) - 1) :
               last.value[i].score >= last.value[i + 1].score
        /\ \A i \in DOMAIN last.value : last.value[i].score >= 0

\* descendant_count x (1 + in_degree) of a node
BaseCount(n) == Cardinality(Descendants(n)) * (1 + InDegree(n))

\* the same in hundredths, the unit of the scores
BaseScore(n) == 100 * BaseCount(n)

\* C9 as stated: intervention_ranking has one entry per entity; the score is
\* descendant_count x (1 + in_degree), times (2.0 - success_probability) for
\* an Action, rounded to 2 places; the multiplier lies in [1.0, 2.0], so an
\* Action scores no lower than another node with the same counts.
C9_RankingScoreFormula ==
    last.op = "intervention_ranking" =>
        /\ Len(last.value) = Len(_entities)
        /\ { last.value[i].node_id : i \in DOMAIN last.value } = EntityIdSet
        /\ \A i \in DOMAIN last.value :
               LET n == last.value[i].node_id
                   e == get_entity(n)
               IN  IF e.type = "Action"
                   THEN /\ last.value[i].score =
                               Round2(BaseCount(n) *
                                      (2000 - e.success_probability[1]))
                        /\ last.value[i].score >= BaseScore(n)
                        /\ last.value[i].score <= 2 * BaseScore(n)
                   ELSE last.value[i].score = BaseScore(n)

\* C10: find_chokepoints(limit) returns min(limit, number of entities)
\* entries, each with the descendant count as impact and the ancestor count
\* as upstream_count, in non-increasing order of impact, no omitted node
\* having more impact than a returned one, and nodes of equal impact in the
\* order of their insertion.
C10_Chokepoints ==
    last.op = "find_chokepoints" =>
        LET returned == { last.value[i].node_id : i \in DOMAIN last.value }
        IN  /\ last.status = "ok"
            /\ Len(last.value) = IF last.arg < Len(_entities)
                                 THEN last.arg ELSE Len(_entities)
            /\ returned \subseteq EntityIdSet
            /\ Cardinality(returned) = Len(last.value)
            /\ \A i \in DOMAIN last.value :
                   LET n == last.value[i].node_id
                   IN  /\ last.value[i].impact = Cardinality(Descendants(n))
                       /\ last.value[i].upstream_count =
                              Cardinality(Ancestors(n))
                       /\ \A m \in EntityIdSet \ returned :
                              Cardinality(Descendants(m)) <=
                                  last.value[i].impact
            /\ \A i \in 1..(Len(last.value) - 1) :
                   /\ last.value[i].impact >= last.value[i + 1].impact
                   /\ last.value[i].impact = last.value[i + 1].impact =>
                          Index(EntityIds, last.value[i].node_id) <
                              Index(EntityIds, last.value[i + 1].node_id)

\* find_chokepoints cut the list between two nodes of equal, positive impact
C10_Witness ==
    /\ last.op = "find_chokepoints"
    /\ last.arg = 1
    /\ Len(_entities) = 3
    /\ last.value[1].impact > 0
    /\ \E m \in EntityIdSet \ {last.value[1].node_id} :
           Cardinality(Descendants(m)) = last.value[1].impact

\* the paths from a node without incoming relationship to a node without
\* outgoing relationship that hold a Narrative entity
NarrativePaths ==
    { p \in SourceSinkPaths :
        \E i \in DOMAIN p : get_entity(p[i]).type = "Narrative" }

IdsOfVariant(variant) ==
    { id \in EntityIdSet : get_entity(id).type = variant }

\* the number of tool names listed on the Actions whose ids are in S
RECURSIVE TotalTools(_)
TotalTools(S) ==
    IF S = {} THEN 0
    ELSE LET id == CHOOSE x \in S : TRUE
         IN  Len(get_entity(id).tools) + TotalTools(S \ {id})

StoredIn(entities, id) == CHOOSE e \in Range(entities) : e.id = id

\* the entity stored under an id of the chain
Stored(id) == StoredIn(_entities, id)

\* C13: add_entity stores its entity under the entity's id, replacing what
\* was stored there whatever the variants, and leaves the entities of the
\* other ids alone; no other call changes the entities; there is one entity
\* per id inserted; get_entity returns the entity stored under the id, and
\* an absent result without failing for an id never inserted.
C13_LastWriterWins ==
    /\ [](Len(_entities) = Cardinality(EntityIdSet))
    /\ [][IF last'.op = "add_entity"
          THEN /\ EntityIdSet' = EntityIdSet \cup {last'.arg.id}
               /\ StoredIn(_entities', last'.arg.id) = last'.arg
               /\ \A id \in EntityIdSet \ {last'.arg.id} :
                      StoredIn(_entities', id) = Stored(id)
          ELSE _entities' = _entities]_vars
    /\ [](last.op = "get_entity" =>
              /\ last.status = "ok"
              /\ last.value = IF last.arg \in EntityIdSet
                              THEN Stored(last.arg) ELSE NoEntity)

\* add_entity put a Narrative under an id that was in use: the id has a
\* relationship, which only an entity stored before can have
C13_Witness ==
    /\ last.op = "add_entity"
    /\ last.arg.type = "Narrative"
    /\ Len(_entities) = 3
    /\ \E e \in Edges : last.arg.id \in {e[1], e[2]}

\* C14: add_entity does not fail and leaves every relationship as it was,
\* also when it overwrites an entity that has relationships.
C14_AddEntityKeepsRelationships ==
    [][last'.op = "add_entity" =>
          /\ last'.status = "ok"
          /\ relationships' = relationships]_vars

\* add_entity overwrote an entity that has an incoming and an outgoing
\* relationship
C14_Witness ==
    /\ last.op = "add_entity"
    /\ InDegree(last.arg.id) > 0
    /\ OutDegree(last.arg.id) > 0

\* the read-only queries
QueryOps ==
    {"is_valid_dag", "get_chain", "get_critical_path", "intervention_score",
     "get_entity", "get_entities_by_type", "find_chokepoints",
     "intervention_ranking", "narrative_threads", "capability_requirements"}

\* the queries whose result the chain determines in every build
DeterminedOps == QueryOps \ {"get_critical_path", "narrative_threads"}

\* C17: a read-only query, whether it returns or fails, leaves the
\* entities and the graph, and with the graph its nodes and the
\* relationships, as they were (no virtual source or sink stays behind),
\* and a query repeated right away gives the same result.
C17_QueriesChangeNothing ==
    [][last'.op \in QueryOps =>
          /\ _entities' = _entities
          /\ graph' = graph
          /\ NodeSet(graph') = EntityIdSet
          /\ ( /\ last'.op \in DeterminedOps
               /\ last'.op = last.op
               /\ last'.arg = last.arg ) => last' = last]_vars

\* get_critical_path ran its search on a chain with relationships and
\* returned a path of two nodes
C17_Witness ==
    /\ last.op = "get_critical_path"
    /\ last.status = "ok"
    /\ Len(last.value) = 2
    /\ Len(relationships) >= 1

\* C18: get_entities_by_type(variant) returns the stored entities of that
\* variant, each once; the results for the seven variants are disjoint and
\* cover the entities; an entity just inserted is listed under its own
\* variant only.
C18_EntitiesByType ==
    /\ last.op = "get_entities_by_type" =>
           /\ last.status = "ok"
           /\ { e.id : e \in Range(last.value) } = IdsOfVariant(last.arg)
           /\ Len(last.value) = Cardinality(IdsOfVariant(last.arg))
           /\ \A e \in Range(last.value) : e = Stored(e.id)
    /\ UNION { Range(get_entities_by_type(v)) : v \in Variants }
           = Range(_entities)
    /\ \A v \in Variants : \A w \in Variants \ {v} :
           Range(get_entities_by_type(v))
               \cap Range(get_entities_by_type(w)) = {}
    /\ last.op = "add_entity" =>
           \A v \in Variants :
               (\E e \in Range(get_entities_by_type(v)) :
                    e.id = last.arg.id) <=> v = last.arg.type

\* get_entities_by_type returned two of the three entities
C18_Witness ==
    /\ last.op = "get_entities_by_type"
    /\ last.arg = "Action"
    /\ Len(last.value) = 2
    /\ Len(_entities) = 3

RelationshipObjects(bundle) ==
    { i \in DOMAIN bundle.objects : bundle.objects[i].type = "relationship" }

\* the positions of the entity objects of a bundle
EntityObjects(bundle) ==
    DOMAIN bundle.objects \ RelationshipObjects(bundle)

\* C19: a bundle of to_stix_bundle has one object per entity, with the id
\* <type tag>--<entity id>, and one relationship object per relationship;
\* the source_ref and the target_ref of every relationship object are ids
\* of entity objects of the bundle, those of the relationship's endpoints.
C19_StixBundleClosed ==
    last.op = "to_stix_bundle" =>
        LET objs == last.value.objects
            ents == EntityObjects(last.value)
            rels == RelationshipObjects(last.value)
        IN  /\ Cardinality(ents) = Len(_entities)
            /\ \A id \in EntityIdSet :
                   Cardinality({ i \in ents :
                                   /\ objs[i].x_threadmap.id = id
                                   /\ objs[i].id =
                                          objs[i].type \o "--" \o id }) = 1
            /\ Cardinality(rels) = Len(relationships)
            /\ \A r \in Range(relationships) :
                   \E i \in rels :
                       /\ \E j \in ents :
                              /\ objs[j].id = objs[i].source_ref
                              /\ objs[j].x_threadmap.id = r.source
                       /\ \E j \in ents :
                              /\ objs[j].id = objs[i].target_ref
                              /\ objs[j].x_threadmap.id = r.target
            /\ \A i \in rels :
                   /\ \E j \in ents : objs[j].id = objs[i].source_ref
                   /\ \E j \in ents : objs[j].id = objs[i].target_ref

\* a bundle was built for three entities of three variants with three
\* relationships
C19_Witness ==
    /\ last.op = "to_stix_bundle"
    /\ Cardinality(EntityObjects(last.value)) = 3
    /\ Cardinality(RelationshipObjects(last.value)) = 3
    /\ Cardinality({ e.type : e \in Range(_entities) }) = 3

\* the sequence entry-0, ..., entry-(n-1), amplify-0, ..., amplify-(m-1),
\* effect-reach
PlanSequence(n, m) ==
    [k \in 1..(n + m + 1) |->
        IF k <= n THEN "entry-" \o ToString(k - 1)
        ELSE IF k <= n + m THEN "amplify-" \o ToString(k - n - 1)
        ELSE "effect-reach"]

\* the consecutive links of the sequence, each with the edge type of the
\* node it enters
PlanLinks(n, m) ==
    { [source |-> PlanSequence(n, m)[k],
       target |-> PlanSequence(n, m)[k + 1],
       edge_type |-> IF k + 1 <= n THEN "enables"
                     ELSE IF k + 1 <= n + m THEN "amplifies"
                     ELSE "triggers"] : k \in 1..(n + m) }

\* C16: network_to_chain on a plan with n entry points and m amplification
\* steps has no relationship rejected; its chain is a valid DAG; its
\* relationships are the consecutive links of entry-0, ..., entry-(n-1),
\* amplify-0, ..., amplify-(m-1), effect-reach, with type enables into an
\* entry action, amplifies into an amplification action and triggers into
\* effect-reach; for n + m = 0 the chain has the Effect and no relationship.
C16_PlanIsALinearChain ==
    /\ last.op = "network_to_chain" =>
           LET n == Len(last.arg.entry_points)
               m == Len(last.arg.amplification_chain)
           IN  /\ last.status = "ok"
               /\ ~HasCycle
               /\ is_directed_acyclic_graph(graph)
               /\ "effect-reach" \in IdsOfVariant("Effect")
               /\ Len(relationships) = Cardinality(PlanLinks(n, m))
               /\ { [source |-> r.source, target |-> r.target,
                     edge_type |-> r.edge_type] :
                       r \in Range(relationships) } = PlanLinks(n, m)
               /\ n + m = 0 => relationships = <<>>
    /\ last.op = "is_valid_dag" => last.value

\* a chain was built from a plan with two entry points and two
\* amplification steps, actors, a community, a weak link and a risk node
C16_Witness ==
    /\ last.op = "network_to_chain"
    /\ Len(last.arg.entry_points) = 2
    /\ Len(last.arg.amplification_chain) = 2
    /\ Len(relationships) = 4
    /\ Len(_entities) = 10

\* the chain is not empty and has no node without incoming relationship or
\* no node without outgoing relationship
NoSourceOrNoSink ==
    /\ _entities # <<>>
    /\ \/ \A n \in EntityIdSet : InDegree(n) > 0
       \/ \A n \in EntityIdSet : OutDegree(n) > 0

\* C20 as stated: on a non-empty chain without a zero-in-degree node or
\* without a zero-out-degree node get_critical_path does not fail and
\* returns a topological order of all entity ids.
C20_FallbackToTopologicalOrder ==
    (last.op = "get_critical_path" /\ NoSourceOrNoSink) =>
        /\ last.status = "ok"
        /\ Len(last.value) = Len(_entities)
        /\ Range(last.value) = EntityIdSet
        /\ \A e \in Edges :
               Index(last.value, e[1]) < Index(last.value, e[2])

\* C20, amended: a non-empty chain without a zero-in-degree node or without
\* a zero-out-degree node has a cycle, and get_critical_path fails on it
\* with a ValueError and no result; the fallback to a topological order is
\* never taken.
C20_NoSourceOrNoSinkFails ==
    /\ NoSourceOrNoSink => HasCycle
    /\ (last.op = "get_critical_path" /\ NoSourceOrNoSink) =>
           /\ last.status = "ValueError"
           /\ last.value = <<>>

\* get_critical_path was called on a chain of two entities that has
\* relationships and no node without incoming relationship
C20_Witness ==
    /\ last.op = "get_critical_path"
    /\ Len(_entities) = 2
    /\ \A n \in EntityIdSet : InDegree(n) > 0

\* C21: on a chain with no entities get_critical_path returns the empty
\* sequence, get_chain returns the empty sequence, neither fails, and
\* is_valid_dag is true.
C21_EmptyChain ==
    Len(_entities) = 0 =>
        /\ last.op = "get_critical_path" =>
               last.status = "ok" /\ last.value = <<>>
        /\ last.op = "get_chain" =>
               last.status = "ok" /\ last.value = <<>>
        /\ last.op = "is_valid_dag" =>
               last.status = "ok" /\ last.value = TRUE

\* get_critical_path ran on the chain with no entities
C21_Witness ==
    /\ Len(_entities) = 0
    /\ Len(graph.nodes) = 0
    /\ last.op = "get_critical_path"
    /\ last.status = "ok"

\* C22: after any add_entity and add_relationship calls, accepted or
\* rejected, the nodes of the graph are the keys of the entities, each once
\* (no relationship creates a node without an entity), and the variant
\* recorded on each node is the variant of the entity stored under its id.
C22_StoresAgree ==
    /\ NodeSet(graph) = EntityIdSet
    /\ Len(graph.nodes) = Len(_entities)
    /\ DOMAIN graph.node_attr = EntityIdSet
    /\ \A n \in NodeSet(graph) :
           /\ graph.node_attr[n].entity_type = Stored(n).type
           /\ graph.node_attr[n].data = Stored(n)

\* a relationship to an id without an entity was just rejected, on a chain
\* whose entity "a" is an Action with a relationship: "a" has relationships
\* only once both "a" and "b" are stored, and the Action "a" is handed to
\* add_entity
C22_Witness ==
    /\ last.op = "add_relationship"
    /\ last.status = "ValueError"
    /\ last.arg.source_id \in EntityIdSet
    /\ last.arg.target_id \notin EntityIdSet
    /\ "a" \in EntityIdSet
    /\ Stored("a").type = "Action"
    /\ \E e \in Edges : "a" \in {e[1], e[2]}

\* the relationships in rels from source to target
RelationshipsBetween(rels, source, target) ==
    { r \in Range(rels) : r.source = source /\ r.target = target }

\* the relationship that add_relationship(rel) stores
AsStored(rel) ==
    [source |-> rel.source_id, target |-> rel.target_id,
     edge_type |-> rel.edge_type, resource_id |-> rel.resource_id,
     description |-> rel.description]

\* C23: the chain holds at most one relationship per ordered pair (source,
\* target); an accepted add_relationship for a pair that has a relationship
\* replaces its edge type, resource id and description and leaves the number
\* of relationships unchanged; for a pair that has none, also when the
\* opposite pair has one, it stores one more relationship; the relationships
\* of the other pairs stay as they were.
C23_OneRelationshipPerPair ==
    /\ [](Len(relationships) = Cardinality(Edges))
    /\ [][(last'.op = "add_relationship" /\ last'.status = "ok") =>
              /\ RelationshipsBetween(relationships', last'.arg.source_id,
                                      last'.arg.target_id)
                     = {AsStored(last'.arg)}
              /\ Len(relationships') =
                     IF <<last'.arg.source_id, last'.arg.target_id>> \in Edges
                     THEN Len(relationships)
                     ELSE Len(relationships) + 1
              /\ \A r \in Range(relationships) :
                     <<r.source, r.target>>
                         # <<last'.arg.source_id, last'.arg.target_id>>
                     => r \in Range(relationships')]_vars

\* add_relationship was accepted for the pair (a, b), which had a
\* relationship already: the relationship from a to a, stored after it, was
\* there before the call; the opposite pair (b, a) has its own relationship
C23_Witness ==
    /\ last.op = "add_relationship"
    /\ last.status = "ok"
    /\ last.arg.source_id = "a"
    /\ last.arg.target_id = "b"
    /\ last.arg.edge_type = "triggers"
    /\ graph.succ["a"] = <<"b", "a">>
    /\ RelationshipsBetween(relationships, "b", "a") # {}


====
